---------------------------- MODULE Spec2Model ----------------------------
(***************************************************************************)
(* Model of backend/main.py: a FastAPI relay in front of the Tripo3D       *)
(* image-to-3D service.  The state is the API key of the environment, the  *)
(* in-memory task_storage, the background poller of each submitted task    *)
(* (monitor_task_progress), the synchronous request a client currently has *)
(* open (the health probe, Submit, Status or Download), and the local      *)
(* downloads directory.  The remote service is opaque: every call to it    *)
(* ends in one of the outcomes enumerated below, chosen                    *)
(* nondeterministically when the call returns.                             *)
(*                                                                         *)
(* Scope: one synchronous client request is open at a time; it runs        *)
(* concurrently with the background pollers.  The remote service hands    *)
(* out each task id at most once.                                          *)
(***************************************************************************)
EXTENDS Integers, Sequences, FiniteSets, TLC

VARIABLES
    TRIPO3D_API_KEY,   \* os.getenv("TRIPO3D_API_KEY")
    configured,        \* tripo3d_client is not None
    task_storage,      \* dict: task id -> TaskResponse
    last_writer,       \* history: which assignment stored task_storage[t] last
    poller,            \* per task id: the state of monitor_task_progress
    background_tasks,  \* per task id: how many pollers add_task has scheduled
    req,               \* the synchronous request now open, or the last one answered
    downloads          \* files written under downloads/: <<task id, format>>

vars == <<TRIPO3D_API_KEY, configured, task_storage, last_writer, poller, background_tasks, req, downloads>>

---------------------------------------------------------------------------
(* JSON / Python values.  Every optional or dynamically typed value is    *)
(* tagged with its type so that isinstance, `in`, and truthiness can be    *)
(* computed as the code computes them.                                     *)

None == [type |-> "None"]
Str(s) == [type |-> "str", val |-> s]
Num(n) == [type |-> "int", val |-> n]
\* a string held as its sequence of characters
Text(cs) == [type |-> "text", val |-> cs]
Dict(f) == [type |-> "dict", val |-> f]
List(S) == [type |-> "list", val |-> S]
EmptyDict == [k \in {} |-> None]
NotJson == [type |-> "not_json"]

IsDict(v) == v.type = "dict"
IsStr(v) == v.type = "str"
\* key in d
In(k, d) == IsDict(d) /\ k \in DOMAIN d.val
\* d.get(k)
Get(d, k) == IF In(k, d) THEN d.val[k] ELSE None
\* Python truthiness of an Optional[Dict] / Optional[str] / Optional[int]
Truthy(v) ==
    CASE v.type = "None" -> FALSE
      [] v.type = "dict" -> DOMAIN v.val # {}
      [] v.type = "str" -> v.val # ""
      [] v.type = "text" -> v.val # <<>>
      [] v.type = "int" -> v.val # 0
      [] OTHER -> TRUE
\* d[k] = v on a dict held as a function
Put(d, k, v) == [x \in (DOMAIN d) \cup {k} |-> IF x = k THEN v ELSE d[x]]

---------------------------------------------------------------------------
(* Bounds of the model.                                                    *)

\* how many distinct non-200 status codes the remote service may answer with
NumErrorCodes == 2

\* the task ids the remote service can assign, and clients can ask about
TaskIds == {"t1"}
\* the formats a client may request
Formats == {"glb", "fbx"}

RemoteErrorCodes == {500 + i : i \in 1..NumErrorCodes}

---------------------------------------------------------------------------
(* Program constants.                                                      *)

max_attempts == 120
MaxFileSize == 10 * 1024 * 1024

TaskStatus == {"queued", "running", "success", "failed"}
Terminal == {"success", "failed"}

\* TaskResponse(task_id, status, input, output, progress, created_time)
TaskResponse(t, st, inp, out, prog, ct) ==
    [task_id |-> t, status |-> st, input |-> inp, output |-> out,
     progress |-> prog, created_time |-> ct]

---------------------------------------------------------------------------
(* Results of a call: a returned value, an HTTPException, or any other    *)
(* exception.                                                              *)

NoDetail == [msg |-> "", echo |-> None]
Return(v) == [ok |-> TRUE, value |-> v, exc |-> "", status_code |-> 200, detail |-> NoDetail]
Raise(code, msg, echo) ==
    [ok |-> FALSE, value |-> None, exc |-> "HTTPException", status_code |-> code,
     detail |-> [msg |-> msg, echo |-> echo]]
Throw(name) ==
    [ok |-> FALSE, value |-> None, exc |-> name, status_code |-> 0, detail |-> NoDetail]

(* Outcomes of one HTTP exchange with the remote service.                  *)
Timeout == [kind |-> "timeout", status_code |-> 0, body |-> None]
RequestError == [kind |-> "request_error", status_code |-> 0, body |-> None]
Response(code, body) == [kind |-> "response", status_code |-> code, body |-> body]
NoOutcome == [kind |-> "none", status_code |-> 0, body |-> None]

TransportFailures == {Timeout, RequestError}
ErrorResponses == {Response(c, None) : c \in RemoteErrorCodes}

---------------------------------------------------------------------------
(* Tripo3DClient.upload_image: the token is looked for in the 200 body.    *)

UploadTokenKeys == <<"image_token", "token", "file_token">>

\* for key in [...]: if key in result["data"]: return result["data"][key]
RECURSIVE FirstKey(_, _)
FirstKey(d, i) ==
    IF i > Len(UploadTokenKeys) THEN 0
    ELSE IF In(UploadTokenKeys[i], d) THEN i
    ELSE FirstKey(d, i + 1)

NoTokenMsg == "Could not extract token from upload response"

ExtractToken(result) ==
    LET data == Get(result, "data")
        k == FirstKey(data, 1)
    IN  IF In("data", result)
        THEN IF IsDict(data)
             THEN IF k # 0 THEN Return(data.val[UploadTokenKeys[k]])
                  ELSE Raise(500, NoTokenMsg, result)
             ELSE IF IsStr(data) THEN Return(data)
             ELSE Raise(500, NoTokenMsg, result)
        ELSE IF In("token", result) THEN Return(result.val["token"])
        ELSE IF In("image_token", result) THEN Return(result.val["image_token"])
        ELSE Raise(500, NoTokenMsg, result)

upload_image(o) ==
    CASE o.kind = "timeout" -> Raise(408, "Upload timeout", None)
      [] o.kind = "request_error" -> Raise(500, "Upload request failed", None)
      [] OTHER ->
            IF o.status_code = 200
            THEN IF o.body = NotJson THEN Throw("JSONDecodeError")
                 ELSE ExtractToken(o.body)
            ELSE Raise(o.status_code, "Upload failed", Num(o.status_code))

---------------------------------------------------------------------------
(* Tripo3DClient.create_task, get_task_status, download_file.              *)

create_task(o) ==
    CASE o.kind = "timeout" -> Raise(408, "Task creation timeout", None)
      [] o.kind = "request_error" -> Raise(500, "Task creation request failed", None)
      [] OTHER ->
            IF o.status_code # 200
            THEN Raise(o.status_code, "Failed to create task", Num(o.status_code))
            ELSE IF o.body = NotJson THEN Throw("JSONDecodeError")
            ELSE IF In("data", o.body) /\ In("task_id", Get(o.body, "data"))
                 THEN Return(Get(o.body, "data").val["task_id"])
            ELSE IF In("task_id", o.body) THEN Return(o.body.val["task_id"])
            ELSE Raise(500, "Could not extract task_id from response", o.body)

\* mutant: data["status"] is passed through without TaskStatus(...)
get_task_status_passthrough(task_id, o) ==
    CASE o.kind = "timeout" -> Raise(408, "Status check timeout", None)
      [] o.kind = "request_error" -> Raise(500, "Status check request failed", None)
      [] OTHER ->
            IF o.status_code # 200
            THEN Raise(o.status_code, "Failed to get task status", Num(o.status_code))
            ELSE IF o.body = NotJson THEN Throw("JSONDecodeError")
            ELSE IF ~In("data", o.body)
                 THEN Raise(500, "Invalid task status response format", o.body)
            ELSE LET data == o.body.val["data"] IN
                 IF ~In("status", data) THEN Throw("KeyError")
                 ELSE Return(TaskResponse(task_id, data.val["status"].val,
                                          Get(data, "input"), Get(data, "output"),
                                          Get(data, "progress"), Get(data, "created_time")))

get_task_status(task_id, o) ==
    CASE o.kind = "timeout" -> Raise(408, "Status check timeout", None)
      [] o.kind = "request_error" -> Raise(500, "Status check request failed", None)
      [] OTHER ->
            IF o.status_code # 200
            THEN Raise(o.status_code, "Failed to get task status", Num(o.status_code))
            ELSE IF o.body = NotJson THEN Throw("JSONDecodeError")
            ELSE IF ~In("data", o.body)
                 THEN Raise(500, "Invalid task status response format", o.body)
            ELSE LET data == o.body.val["data"] IN
                 IF ~In("status", data) THEN Throw("KeyError")
                 \* TaskStatus(data["status"])
                 ELSE IF ~(IsStr(data.val["status"]) /\ data.val["status"].val \in TaskStatus)
                      THEN Throw("ValueError")
                 ELSE Return(TaskResponse(task_id, data.val["status"].val,
                                          Get(data, "input"), Get(data, "output"),
                                          Get(data, "progress"), Get(data, "created_time")))

\* the result, and whether the body was written to downloads/<filename>
download_file(o) ==
    CASE o.kind = "timeout" -> Raise(408, "Download timeout", None)
      [] o.kind = "request_error" -> Raise(500, "Download request failed", None)
      [] OTHER ->
            IF o.status_code # 200
            THEN Raise(o.status_code, "Failed to download file", Num(o.status_code))
            ELSE Return(Str("file_path"))

---------------------------------------------------------------------------
(* What the remote service may answer.                                     *)

TokenAt(where) == Str(where)
DataTokenDicts ==
    {Dict([k \in K |-> TokenAt(k)]) : K \in SUBSET {"image_token", "token", "file_token"}}
\* the value under "data": a dict, a string, or JSON null
UploadData == DataTokenDicts \cup {Str("data"), None}
UploadBody(K, d) ==
    Dict([k \in K |-> IF k = "data" THEN d ELSE TokenAt(k)])
UploadBodies ==
    {UploadBody(K, None) : K \in SUBSET {"token", "image_token"}}
    \cup {UploadBody(K \cup {"data"}, d) : K \in SUBSET {"token", "image_token"}, d \in UploadData}
    \cup {NotJson}
UploadOutcomes ==
    TransportFailures \cup ErrorResponses \cup {Response(200, b) : b \in UploadBodies}

CreateBodies(t) ==
    { Dict([data |-> Dict([task_id |-> Str(t)])]),
      Dict([task_id |-> Str(t)]),
      Dict([data |-> Dict(EmptyDict), task_id |-> Str(t)]),
      Dict([data |-> Dict(EmptyDict)]),
      Dict(EmptyDict),
      NotJson }
CreateOutcomes(t) ==
    TransportFailures \cup ErrorResponses \cup {Response(200, b) : b \in CreateBodies(t)}

ModelUrls == Dict([model |-> Dict([urls |-> Dict([glb |-> Str("url_glb")])])])
StatusData ==
    { [status |-> Str("queued"), progress |-> Num(0)],
      [status |-> Str("running"), progress |-> Num(50)],
      [status |-> Str("failed"), progress |-> Num(50)],
      [status |-> Str("success"), progress |-> Num(100)],
      [status |-> Str("success"), progress |-> Num(100), output |-> Dict(EmptyDict)],
      [status |-> Str("success"), progress |-> Num(100),
       output |-> Dict([model |-> Dict(EmptyDict)])],
      [status |-> Str("success"), progress |-> Num(100), output |-> ModelUrls],
      [status |-> Str("banned"), progress |-> Num(0)],
      [progress |-> Num(0)] }
StatusBodies ==
    {Dict([data |-> Dict(d)]) : d \in StatusData} \cup {Dict(EmptyDict), NotJson}
StatusOutcomes ==
    TransportFailures \cup ErrorResponses \cup {Response(200, b) : b \in StatusBodies}

FileOutcomes == TransportFailures \cup ErrorResponses \cup {Response(200, Str("bytes"))}

---------------------------------------------------------------------------
(* What a client may send.                                                 *)

ImagePng == Text(<<"i", "m", "a", "g", "e", "/", "p", "n", "g">>)
TextPlain == Text(<<"t", "e", "x", "t", "/", "p", "l", "a", "i", "n">>)
ContentTypes == {None, Text(<<>>), ImagePng, TextPlain}
\* UploadFile.size is absent or the length of the body
UploadFile(ct, size, len) == [content_type |-> ct, size |-> size, length |-> len]
BodyLengths == {0, 1, MaxFileSize, MaxFileSize + 1}
Files ==
    {UploadFile(ct, None, n) : ct \in ContentTypes, n \in {0, 1}}
    \cup {UploadFile(ct, Num(n), n) : ct \in ContentTypes, n \in BodyLengths}

\* s.startswith(p)
StartsWith(s, p) == Len(s) >= Len(p) /\ SubSeq(s, 1, Len(p)) = p
ImagePrefix == <<"i", "m", "a", "g", "e", "/">>

\* the form fields of POST /convert/image-to-3d
Form(mv, st, tr, rm) ==
    [model_version |-> mv, style |-> st, texture_resolution |-> tr, remesh |-> rm]
Forms ==
    {Form(mv, st, tr, rm) : mv \in {Str(""), Str("v2.0-20240919")},
                            st \in {None, Str("none"), Str("cartoon")},
                            tr \in {Num(0), Num(1024)},
                            rm \in {Str("none"), Str("quad")}}
DefaultForm == Form(Str("v2.0-20240919"), None, Num(1024), Str("none"))

\* what Pillow makes of the body of the file: the mode of the image, whether
\* its larger side exceeds max_size, and the step of the normalization that
\* raises on it, if any
ImageModes == {"RGB", "L", "RGBA", "P"}
NormalizationSteps == {"decode", "convert", "resize", "encode"}
Images ==
    [mode : ImageModes, large : BOOLEAN, raises : NormalizationSteps \cup {"none"}]
DefaultImage == [mode |-> "RGB", large |-> FALSE, raises |-> "none"]

\* image_data, and the JPEG bytes img.save writes
Bytes(f) == [type |-> "bytes", val |-> <<"image_data", f.length>>]
Jpeg(mode) == [type |-> "bytes", val |-> <<"JPEG", mode>>]

\* mutant: only a failure to decode is caught
optimize_image_for_upload_decode_only(f, img) ==
    LET converts == img.mode \notin {"RGB", "L"}
        mode == IF converts THEN "RGB" ELSE img.mode
    IN  IF img.raises = "decode" THEN Bytes(f)
        ELSE IF converts /\ img.raises = "convert" THEN None
        ELSE IF img.large /\ img.raises = "resize" THEN None
        ELSE IF img.raises = "encode" THEN None
        ELSE Jpeg(mode)

\* what the call returns for the bytes of file f that Pillow reads as img
optimize_image_for_upload(f, img) ==
    LET converts == img.mode \notin {"RGB", "L"}
        mode == IF converts THEN "RGB" ELSE img.mode
    IN  IF img.raises = "decode" THEN Bytes(f)
        ELSE IF converts /\ img.raises = "convert" THEN Bytes(f)
        ELSE IF img.large /\ img.raises = "resize" THEN Bytes(f)
        ELSE IF img.raises = "encode" THEN Bytes(f)
        ELSE Jpeg(mode)

\* files = {'file': (filename, optimized_image, 'image/jpeg')}
UploadFiles(f, img) ==
    [file |-> [content |-> optimize_image_for_upload(f, img), content_type |-> "image/jpeg"]]

\* ImageTo3DRequest(model_version=model_version,
\*                  style=style if style and style != "none" else None, ...)
ImageTo3DRequest(form) ==
    Form(form.model_version,
         IF Truthy(form.style) /\ form.style.val # "none" THEN form.style ELSE None,
         form.texture_resolution, form.remesh)

extra(request_params) ==
    LET keys ==
          {k \in {"model_version", "texture_resolution"} : Truthy(request_params[k])}
          \cup {k \in {"style", "remesh"} :
                   Truthy(request_params[k]) /\ request_params[k].val # "none"}
    IN  [k \in keys |-> request_params[k]]

payload(file_token, request_params) ==
    LET base == [type |-> Str("image_to_model"),
                 file |-> Dict([type |-> Str("image"), file_token |-> file_token])]
    IN  IF DOMAIN extra(request_params) # {}
        THEN Dict(Put(base, "extra", Dict(extra(request_params))))
        ELSE Dict(base)

---------------------------------------------------------------------------
(* The synchronous request and its response.                               *)

HTTPResponse(code, detail, body) == [status_code |-> code, detail |-> detail, body |-> body]
NoResponse == HTTPResponse(0, NoDetail, None)
Error(code, msg, echo) == HTTPResponse(code, [msg |-> msg, echo |-> echo], None)
NotConfigured == Error(500, "Tripo3D API key not configured", None)

\* mutant: every exception, HTTPException included, is wrapped into a 500
ReraiseAsInternalError(r, msg) ==
    Error(500, msg, Str(r.exc))

\* except HTTPException: raise / except Exception as e: raise HTTPException(500, ...)
Reraise(r, msg) ==
    IF r.exc = "HTTPException" THEN HTTPResponse(r.status_code, r.detail, None)
    ELSE Error(500, msg, Str(r.exc))

Request(op, pc, t, fmt, f, tok, url, o, resp) ==
    [op |-> op, pc |-> pc, task_id |-> t, format |-> fmt, file |-> f,
     file_token |-> tok, url |-> url, remote |-> o, response |-> resp,
     \* Submit: request_params, the multipart files of the upload call and
     \* the json payload of the creation call, once they have been built
     request_params |-> None, files |-> None, payload |-> None]
NoRequest == Request("none", "idle", "", "", None, None, None, NoOutcome, NoResponse)
Answer(r, o, resp) == [r EXCEPT !.pc = "done", !.remote = o, !.response = resp]

\* the client opens a request only when its previous one has been answered
CanStart == req.pc \in {"idle", "done"}

Timestamp == [type |-> "int", val |-> "now"]
NotScheduled == [pc |-> "none", attempt |-> 0, task_response |-> None]
Scheduled == [pc |-> "scheduled", attempt |-> 0, task_response |-> None]

\* the environment variable: unset, set to the empty string, or set to a key
ApiKeys == {None, Str(""), Str("key")}

\* tripo3d_client = None; if TRIPO3D_API_KEY: tripo3d_client = Tripo3DClient(...)
Init ==
    /\ TRIPO3D_API_KEY \in ApiKeys
    /\ configured = Truthy(TRIPO3D_API_KEY)
    /\ task_storage = EmptyDict
    /\ last_writer = [t \in TaskIds |-> "none"]
    /\ poller = [t \in TaskIds |-> NotScheduled]
    /\ background_tasks = [t \in TaskIds |-> 0]
    /\ req = NoRequest
    /\ downloads = {}

---------------------------------------------------------------------------
(* GET /                                                                   *)

Bool(b) == [type |-> "bool", val |-> b]

\* "api_configured": TRIPO3D_API_KEY is not None
root ==
    /\ CanStart
    /\ req' = Answer(Request("root", "idle", "", "", None, None, None, NoOutcome, NoResponse),
                     NoOutcome,
                     HTTPResponse(200, NoDetail,
                                  Dict([message |-> Str("Tripo3D FastAPI Backend"),
                                        status |-> Str("running"),
                                        api_configured |-> Bool(TRIPO3D_API_KEY.type # "None")])))
    /\ UNCHANGED <<TRIPO3D_API_KEY, configured, task_storage, last_writer, poller,
                   background_tasks, downloads>>

---------------------------------------------------------------------------
(* POST /convert/image-to-3d                                               *)

\* mutant: the empty body is not rejected
SubmitChecksAcceptsEmpty(f) ==
    IF ~configured THEN NotConfigured
    ELSE IF ~Truthy(f.content_type) \/ ~StartsWith(f.content_type.val, ImagePrefix)
         THEN Error(400, "File must be an image", f.content_type)
    ELSE IF Truthy(f.size) /\ f.size.val > MaxFileSize
         THEN Error(400, "File size too large", None)
    ELSE NoResponse

\* up to the first remote call: the credential and the file are checked
SubmitChecks(f) ==
    IF ~configured THEN NotConfigured
    ELSE IF ~Truthy(f.content_type) \/ ~StartsWith(f.content_type.val, ImagePrefix)
         THEN Error(400, "File must be an image", f.content_type)
    ELSE IF Truthy(f.size) /\ f.size.val > MaxFileSize
         THEN Error(400, "File size too large", None)
    ELSE IF f.length = 0 THEN Error(400, "Received empty file", None)
    ELSE NoResponse

\* the checks, then request_params is built and upload_image posts the files
SubmitStart(f, form, img) ==
    /\ CanStart
    /\ \E t \in TaskIds : background_tasks[t] = 0
    /\ LET r == Request("submit", "upload", "", "", f, None, None, NoOutcome, NoResponse) IN
       req' = IF SubmitChecks(f) = NoResponse
              THEN [r EXCEPT !.request_params = ImageTo3DRequest(form),
                             !.files = UploadFiles(f, img)]
              ELSE Answer(r, NoOutcome, SubmitChecks(f))
    /\ UNCHANGED <<TRIPO3D_API_KEY, configured, task_storage, last_writer, poller, background_tasks, downloads>>

\* mutant: create_task is called whatever upload_image did
SubmitUploadedGoesOn(o) ==
    /\ req.op = "submit" /\ req.pc = "upload"
    /\ LET r == upload_image(o) IN
       req' = [req EXCEPT !.pc = "create", !.file_token = r.value, !.remote = o,
                          !.payload = payload(r.value, req.request_params)]
    /\ UNCHANGED <<TRIPO3D_API_KEY, configured, task_storage, last_writer, poller, background_tasks, downloads>>

\* upload_image returns or raises; on a token create_task posts its payload
SubmitUploaded(o) ==
    /\ req.op = "submit" /\ req.pc = "upload"
    /\ LET r == upload_image(o) IN
       req' = IF r.ok
              THEN [req EXCEPT !.pc = "create", !.file_token = r.value, !.remote = o,
                               !.payload = payload(r.value, req.request_params)]
              ELSE Answer(req, o, Reraise(r, "Internal error"))
    /\ UNCHANGED <<TRIPO3D_API_KEY, configured, task_storage, last_writer, poller, background_tasks, downloads>>

\* TaskResponse(task_id=task_id, status=TaskStatus.QUEUED, created_time=now)
InitialSnapshot(task_id) == TaskResponse(task_id, "queued", None, None, None, Timestamp)

SubmitResponse(task_id) ==
    HTTPResponse(200, NoDetail,
                 Dict([task_id |-> Str(task_id), status |-> Str("queued"),
                       message |-> Str("Image uploaded and conversion task started")]))

\* mutant: the handler makes the first status query itself before it returns
SubmitCreatedPollsInline(t, o) ==
    /\ req.op = "submit" /\ req.pc = "create"
    /\ background_tasks[t] = 0
    /\ LET r == create_task(o) IN
       IF r.ok
       THEN LET task_id == r.value.val IN
            /\ task_storage' = Put(task_storage, task_id, InitialSnapshot(task_id))
            /\ last_writer' = [last_writer EXCEPT ![task_id] = "submit"]
            /\ background_tasks' = [background_tasks EXCEPT ![task_id] = @ + 1]
            /\ poller' = [poller EXCEPT ![task_id] = [Scheduled EXCEPT !.pc = "inflight"]]
            /\ req' = Answer([req EXCEPT !.task_id = task_id], o, SubmitResponse(task_id))
       ELSE /\ req' = Answer(req, o, Reraise(r, "Internal error"))
            /\ UNCHANGED <<task_storage, last_writer, poller, background_tasks>>
    /\ UNCHANGED <<TRIPO3D_API_KEY, configured, downloads>>

\* create_task returns or raises; on a task id the snapshot is stored, the
\* poller is scheduled and the response is returned
SubmitCreated(t, o) ==
    /\ req.op = "submit" /\ req.pc = "create"
    /\ background_tasks[t] = 0
    /\ LET r == create_task(o) IN
       IF r.ok
       THEN LET task_id == r.value.val IN
            /\ task_storage' = Put(task_storage, task_id, InitialSnapshot(task_id))
            /\ last_writer' = [last_writer EXCEPT ![task_id] = "submit"]
            /\ background_tasks' = [background_tasks EXCEPT ![task_id] = @ + 1]
            /\ poller' = [poller EXCEPT ![task_id] = Scheduled]
            /\ req' = Answer([req EXCEPT !.task_id = task_id], o, SubmitResponse(task_id))
       ELSE /\ req' = Answer(req, o, Reraise(r, "Internal error"))
            /\ UNCHANGED <<task_storage, last_writer, poller, background_tasks>>
    /\ UNCHANGED <<TRIPO3D_API_KEY, configured, downloads>>

---------------------------------------------------------------------------
(* GET /task/{task_id}                                                     *)

StatusStart(t) ==
    /\ CanStart
    /\ LET r == Request("status", "status", t, "", None, None, None, NoOutcome, NoResponse) IN
       req' = IF configured THEN r ELSE Answer(r, NoOutcome, NotConfigured)
    /\ UNCHANGED <<TRIPO3D_API_KEY, configured, task_storage, last_writer, poller, background_tasks, downloads>>

\* mutant: a terminal snapshot in task_storage is not overwritten
StatusReturnedKeepsTerminal(o) ==
    /\ req.op = "status" /\ req.pc = "status"
    /\ LET r == get_task_status(req.task_id, o) IN
       IF r.ok
       THEN /\ IF /\ req.task_id \in DOMAIN task_storage
                  /\ task_storage[req.task_id].status \in Terminal
               THEN UNCHANGED <<task_storage, last_writer>>
               ELSE /\ task_storage' = Put(task_storage, req.task_id, r.value)
                    /\ last_writer' = [last_writer EXCEPT ![req.task_id] = "status"]
            /\ req' = Answer(req, o, HTTPResponse(200, NoDetail, r.value))
       ELSE /\ req' = Answer(req, o, Reraise(r, "Error getting task status"))
            /\ UNCHANGED <<task_storage, last_writer>>
    /\ UNCHANGED <<TRIPO3D_API_KEY, configured, poller, background_tasks, downloads>>

\* mutant: a task already in task_storage is answered from it
StatusReturnedFromStorage(o) ==
    /\ req.op = "status" /\ req.pc = "status"
    /\ LET r == get_task_status(req.task_id, o) IN
       IF req.task_id \in DOMAIN task_storage
       THEN /\ req' = Answer(req, o, HTTPResponse(200, NoDetail, task_storage[req.task_id]))
            /\ UNCHANGED <<task_storage, last_writer>>
       ELSE IF r.ok
       THEN /\ task_storage' = Put(task_storage, req.task_id, r.value)
            /\ last_writer' = [last_writer EXCEPT ![req.task_id] = "status"]
            /\ req' = Answer(req, o, HTTPResponse(200, NoDetail, r.value))
       ELSE /\ req' = Answer(req, o, Reraise(r, "Error getting task status"))
            /\ UNCHANGED <<task_storage, last_writer>>
    /\ UNCHANGED <<TRIPO3D_API_KEY, configured, poller, background_tasks, downloads>>

StatusReturned(o) ==
    /\ req.op = "status" /\ req.pc = "status"
    /\ LET r == get_task_status(req.task_id, o) IN
       IF r.ok
       THEN /\ task_storage' = Put(task_storage, req.task_id, r.value)
            /\ last_writer' = [last_writer EXCEPT ![req.task_id] = "status"]
            /\ req' = Answer(req, o, HTTPResponse(200, NoDetail, r.value))
       ELSE /\ req' = Answer(req, o, Reraise(r, "Error getting task status"))
            /\ UNCHANGED <<task_storage, last_writer>>
    /\ UNCHANGED <<TRIPO3D_API_KEY, configured, poller, background_tasks, downloads>>

---------------------------------------------------------------------------
(* GET /task/{task_id}/download                                            *)

DownloadStart(t, fmt) ==
    /\ CanStart
    /\ LET r == Request("download", "status", t, fmt, None, None, None, NoOutcome, NoResponse) IN
       req' = IF configured THEN r ELSE Answer(r, NoOutcome, NotConfigured)
    /\ UNCHANGED <<TRIPO3D_API_KEY, configured, task_storage, last_writer, poller, background_tasks, downloads>>

\* mutant: the status of the task is not looked at
DownloadChecksAnyStatus(r, fmt) ==
    IF ~r.ok THEN Reraise(r, "Error downloading 3D model")
    ELSE IF ~Truthy(r.value.output) \/ ~In("model", r.value.output)
         THEN Error(404, "3D model not found in task output", None)
    ELSE IF ~In("urls", r.value.output.val["model"])
         THEN Error(500, "Error downloading 3D model", Str("KeyError"))
    ELSE IF ~In(fmt, r.value.output.val["model"].val["urls"])
         THEN Error(400, "Format not available. Available formats",
                    List(DOMAIN r.value.output.val["model"].val["urls"].val))
    ELSE NoResponse

\* what the handler does with the fresh status: an error response, or
\* NoResponse when the file is to be fetched
DownloadChecks(r, fmt) ==
    IF ~r.ok THEN Reraise(r, "Error downloading 3D model")
    ELSE IF r.value.status # "success"
         THEN Error(400, "Task not completed. Current status", Str(r.value.status))
    ELSE IF ~Truthy(r.value.output) \/ ~In("model", r.value.output)
         THEN Error(404, "3D model not found in task output", None)
    \* task_response.output["model"]["urls"]
    ELSE IF ~In("urls", r.value.output.val["model"])
         THEN Error(500, "Error downloading 3D model", Str("KeyError"))
    ELSE IF ~In(fmt, r.value.output.val["model"].val["urls"])
         THEN Error(400, "Format not available. Available formats",
                    List(DOMAIN r.value.output.val["model"].val["urls"].val))
    ELSE NoResponse

\* mutant: the fresh snapshot is stored, as the Status query does
DownloadCheckedStores(o) ==
    /\ req.op = "download" /\ req.pc = "status"
    /\ LET r == get_task_status(req.task_id, o)
           e == DownloadChecks(r, req.format)
       IN  /\ req' = IF e = NoResponse
                     THEN [req EXCEPT !.pc = "file", !.remote = o,
                                      !.url = r.value.output.val["model"].val["urls"].val[req.format]]
                     ELSE Answer(req, o, e)
           /\ IF r.ok
              THEN /\ task_storage' = Put(task_storage, req.task_id, r.value)
                   /\ last_writer' = [last_writer EXCEPT ![req.task_id] = "status"]
              ELSE UNCHANGED <<task_storage, last_writer>>
    /\ UNCHANGED <<TRIPO3D_API_KEY, configured, poller, background_tasks, downloads>>

DownloadChecked(o) ==
    /\ req.op = "download" /\ req.pc = "status"
    /\ LET r == get_task_status(req.task_id, o)
           e == DownloadChecks(r, req.format)
       IN  req' = IF e = NoResponse
                  THEN [req EXCEPT !.pc = "file", !.remote = o,
                                   !.url = r.value.output.val["model"].val["urls"].val[req.format]]
                  ELSE Answer(req, o, e)
    /\ UNCHANGED <<TRIPO3D_API_KEY, configured, task_storage, last_writer, poller, background_tasks, downloads>>

FileResponse(t, fmt) ==
    HTTPResponse(200, NoDetail, Dict([path |-> Str("downloads"), filename |-> <<t, fmt>>]))

DownloadFetched(o) ==
    /\ req.op = "download" /\ req.pc = "file"
    /\ LET r == download_file(o) IN
       IF r.ok
       THEN /\ downloads' = downloads \cup {<<req.task_id, req.format>>}
            /\ req' = Answer(req, o, FileResponse(req.task_id, req.format))
       ELSE /\ req' = Answer(req, o, Reraise(r, "Error downloading 3D model"))
            /\ UNCHANGED downloads
    /\ UNCHANGED <<TRIPO3D_API_KEY, configured, task_storage, last_writer, poller, background_tasks>>

---------------------------------------------------------------------------
(* monitor_task_progress(task_id)                                          *)

\* while attempt < max_attempts: ... if not tripo3d_client: break; the status
\* call is then in flight
LoopTest(p) ==
    IF p.attempt < max_attempts /\ configured
    THEN [p EXCEPT !.pc = "inflight"]
    ELSE [p EXCEPT !.pc = "done"]

PollerStart(t) ==
    /\ poller[t].pc = "scheduled"
    /\ poller' = [poller EXCEPT ![t] = LoopTest(@)]
    /\ UNCHANGED <<TRIPO3D_API_KEY, configured, task_storage, last_writer, background_tasks, req, downloads>>

\* mutant: a terminal status does not end the loop
PollerReturnedNoBreak(t, o) ==
    /\ poller[t].pc = "inflight"
    /\ LET r == get_task_status(t, o) IN
       IF r.ok
       THEN /\ task_storage' = Put(task_storage, t, r.value)
            /\ last_writer' = [last_writer EXCEPT ![t] = "poller"]
            /\ poller' = [poller EXCEPT ![t].task_response = r.value, ![t].pc = "sleep"]
       ELSE /\ poller' = [poller EXCEPT ![t].pc = "sleep"]
            /\ UNCHANGED <<task_storage, last_writer>>
    /\ UNCHANGED <<TRIPO3D_API_KEY, configured, background_tasks, req, downloads>>

\* mutant: an exception in one attempt ends the loop
PollerReturnedAbort(t, o) ==
    /\ poller[t].pc = "inflight"
    /\ LET r == get_task_status(t, o) IN
       IF r.ok
       THEN /\ task_storage' = Put(task_storage, t, r.value)
            /\ last_writer' = [last_writer EXCEPT ![t] = "poller"]
            /\ poller' = [poller EXCEPT ![t].task_response = r.value,
                                         ![t].pc = IF r.value.status \in Terminal
                                                   THEN "done" ELSE "sleep"]
       ELSE /\ poller' = [poller EXCEPT ![t].pc = "done"]
            /\ UNCHANGED <<task_storage, last_writer>>
    /\ UNCHANGED <<TRIPO3D_API_KEY, configured, background_tasks, req, downloads>>

\* the status call returns or raises: store, then break or sleep
PollerReturned(t, o) ==
    /\ poller[t].pc = "inflight"
    /\ LET r == get_task_status(t, o) IN
       IF r.ok
       THEN /\ task_storage' = Put(task_storage, t, r.value)
            /\ last_writer' = [last_writer EXCEPT ![t] = "poller"]
            /\ poller' = [poller EXCEPT ![t].task_response = r.value,
                                         ![t].pc = IF r.value.status \in Terminal
                                                   THEN "done" ELSE "sleep"]
       ELSE /\ poller' = [poller EXCEPT ![t].pc = "sleep"]
            /\ UNCHANGED <<task_storage, last_writer>>
    /\ UNCHANGED <<TRIPO3D_API_KEY, configured, background_tasks, req, downloads>>

\* mutant: on exhaustion the task record is marked failed
PollerWakeMarksFailed(t) ==
    /\ poller[t].pc = "sleep"
    /\ poller' = [poller EXCEPT ![t] = LoopTest([@ EXCEPT !.attempt = @ + 1])]
    /\ IF poller[t].attempt + 1 >= max_attempts
       THEN /\ task_storage' = Put(task_storage, t, [task_storage[t] EXCEPT !.status = "failed"])
            /\ last_writer' = [last_writer EXCEPT ![t] = "poller"]
       ELSE UNCHANGED <<task_storage, last_writer>>
    /\ UNCHANGED <<TRIPO3D_API_KEY, configured, background_tasks, req, downloads>>

\* mutant: attempt is one counter shared by all pollers
PollerWakeSharedAttempt(t) ==
    /\ poller[t].pc = "sleep"
    /\ poller' = [b \in DOMAIN poller |->
                    IF b = t THEN LoopTest([poller[b] EXCEPT !.attempt = @ + 1])
                    ELSE [poller[b] EXCEPT !.attempt = @ + 1]]
    /\ UNCHANGED <<TRIPO3D_API_KEY, configured, task_storage, last_writer, background_tasks, req, downloads>>

\* asyncio.sleep(5) ends: attempt += 1 and the loop test
PollerWake(t) ==
    /\ poller[t].pc = "sleep"
    /\ poller' = [poller EXCEPT ![t] = LoopTest([@ EXCEPT !.attempt = @ + 1])]
    /\ UNCHANGED <<TRIPO3D_API_KEY, configured, task_storage, last_writer, background_tasks, req, downloads>>

---------------------------------------------------------------------------

(* The whole program: the handlers and the pollers.                        *)
Next ==
    \/ root
    \/ \E f \in Files, form \in Forms, img \in Images : SubmitStart(f, form, img)
    \/ \E o \in UploadOutcomes : SubmitUploaded(o)
    \/ \E t \in TaskIds : \E o \in CreateOutcomes(t) : SubmitCreated(t, o)
    \/ \E t \in TaskIds : StatusStart(t)
    \/ \E o \in StatusOutcomes : StatusReturned(o)
    \/ \E t \in TaskIds, fmt \in Formats : DownloadStart(t, fmt)
    \/ \E o \in StatusOutcomes : DownloadChecked(o)
    \/ \E o \in FileOutcomes : DownloadFetched(o)
    \/ \E t \in TaskIds : PollerStart(t)
    \/ \E t \in TaskIds : \E o \in StatusOutcomes : PollerReturned(t, o)
    \/ \E t \in TaskIds : PollerWake(t)

Spec == Init /\ [][Next]_vars

(* The writers of task_storage: Submit, the Status query and the pollers.  *)
(* Download reads and writes neither task_storage nor a poller.            *)
TrackerNext ==
    \/ \E f \in Files : SubmitStart(f, DefaultForm, DefaultImage)
    \/ \E o \in UploadOutcomes : SubmitUploaded(o)
    \/ \E t \in TaskIds : \E o \in CreateOutcomes(t) : SubmitCreated(t, o)
    \/ \E t \in TaskIds : StatusStart(t)
    \/ \E o \in StatusOutcomes : StatusReturned(o)
    \/ \E t \in TaskIds : PollerStart(t)
    \/ \E t \in TaskIds : \E o \in StatusOutcomes : PollerReturned(t, o)
    \/ \E t \in TaskIds : PollerWake(t)

TrackerSpec == Init /\ [][TrackerNext]_vars

(* The request handlers, before any scheduled poller has run.              *)
HandlerNext ==
    \/ root
    \/ \E f \in Files : SubmitStart(f, DefaultForm, DefaultImage)
    \/ \E o \in UploadOutcomes : SubmitUploaded(o)
    \/ \E t \in TaskIds : \E o \in CreateOutcomes(t) : SubmitCreated(t, o)
    \/ \E t \in TaskIds : StatusStart(t)
    \/ \E o \in StatusOutcomes : StatusReturned(o)
    \/ \E t \in TaskIds, fmt \in Formats : DownloadStart(t, fmt)
    \/ \E o \in StatusOutcomes : DownloadChecked(o)
    \/ \E o \in FileOutcomes : DownloadFetched(o)

HandlerSpec == Init /\ [][HandlerNext]_vars

(* Submit with every form, the image at its default.                      *)
FormNext ==
    \/ \E f \in Files, form \in Forms : SubmitStart(f, form, DefaultImage)
    \/ \E o \in UploadOutcomes : SubmitUploaded(o)
    \/ \E t \in TaskIds : \E o \in CreateOutcomes(t) : SubmitCreated(t, o)

FormSpec == Init /\ [][FormNext]_vars

(* Submit with every image, up to the answer to the upload call.          *)
ImageNext ==
    \/ \E f \in Files, img \in Images : SubmitStart(f, DefaultForm, img)
    \/ \E o \in UploadOutcomes : SubmitUploaded(o)

ImageSpec == Init /\ [][ImageNext]_vars

(* Two pollers side by side.  Both tasks have been submitted; the poller  *)
(* of the first has had three attempts left for a while, every query of    *)
(* it having failed, and the poller of the second was scheduled just now.  *)
TwoTaskIds == {"t1", "t2"}

\* the request of the client after a Submit that was answered with task id t
SubmittedRequest(t) ==
    LET f == UploadFile(ImagePng, None, 1)
        uploaded == Response(200, Dict([data |-> Str("data")]))
        created == Response(200, Dict([task_id |-> Str(t)]))
        file_token == upload_image(uploaded).value
        r == [Request("submit", "create", t, "", f, file_token, None, created, NoResponse)
                EXCEPT !.request_params = ImageTo3DRequest(DefaultForm),
                       !.files = UploadFiles(f, DefaultImage),
                       !.payload = payload(file_token, ImageTo3DRequest(DefaultForm))]
    IN  Answer(r, created, SubmitResponse(t))

LatePoller == [pc |-> "sleep", attempt |-> max_attempts - 3, task_response |-> None]

PollersInit ==
    /\ TRIPO3D_API_KEY = Str("key")
    /\ configured = Truthy(TRIPO3D_API_KEY)
    /\ task_storage = [t \in TwoTaskIds |-> InitialSnapshot(t)]
    /\ last_writer = [t \in TwoTaskIds |-> "submit"]
    /\ background_tasks = [t \in TwoTaskIds |-> 1]
    /\ \E late \in TwoTaskIds :
          /\ poller = [t \in TwoTaskIds |-> IF t = late THEN LatePoller ELSE Scheduled]
          /\ req = SubmittedRequest(CHOOSE t \in TwoTaskIds : t # late)
    /\ downloads = {}

PollersNext ==
    \/ \E t \in TwoTaskIds : PollerStart(t)
    \/ \E t \in TwoTaskIds : \E o \in StatusOutcomes : PollerReturned(t, o)
    \/ \E t \in TwoTaskIds : PollerWake(t)

PollersSpec == PollersInit /\ [][PollersNext]_vars

---------------------------------------------------------------------------
(* Properties of the background poller.                                    *)

StatusOf(v) == IF v = None THEN "none" ELSE v.status
\* what the poller saw last, or what Submit stored if it has seen nothing
LastObserved(t) ==
    IF poller[t].task_response = None THEN InitialSnapshot(t) ELSE poller[t].task_response

C1_State(t) ==
    poller[t].pc \in {"inflight", "sleep"}
        => StatusOf(poller[t].task_response) \notin Terminal

C1_Step(t) ==
    /\ (/\ poller[t].pc = "inflight"
        /\ poller'[t] # poller[t]
        /\ StatusOf(poller'[t].task_response) \in Terminal)
          => /\ poller'[t].pc = "done"
             /\ poller'[t].attempt = poller[t].attempt
             /\ t \in DOMAIN task_storage'
             /\ task_storage'[t] = poller'[t].task_response
    /\ poller[t].pc = "done" => poller'[t] = poller[t]

\* C1: the poller stops at the first status query that returns success or
\* failed: while it is polling it has seen no terminal status; the step in
\* which a query returns a terminal status ends it, with task_storage[t]
\* holding exactly that snapshot; and once ended it makes no further query.
C1_StopsAtFirstTerminal ==
    /\ [](\A t \in TaskIds : C1_State(t))
    /\ [][\A t \in TaskIds : C1_Step(t)]_vars

\* C1 witness: queued, running, then success at the third query
C1_Witness ==
    \E t \in TaskIds :
        /\ poller[t].pc = "done"
        /\ poller[t].attempt = 2
        /\ StatusOf(poller[t].task_response) = "success"
        /\ task_storage[t] = poller[t].task_response

\* the poller's loop ends because the attempts are used up
Exhausts(t) == poller[t].pc = "sleep" /\ poller'[t].pc = "done"

\* a poller that has ended without seeing a terminal status made 120 attempts
ExactlyMaxAttempts(t) ==
    (poller[t].pc = "done" /\ StatusOf(poller[t].task_response) \notin Terminal)
        => poller[t].attempt = max_attempts

C2_OriginalStep(t) ==
    Exhausts(t)
        => /\ poller'[t].attempt = max_attempts
           /\ task_storage'[t].status \notin Terminal
           /\ (last_writer[t] # "status" => task_storage'[t] = LastObserved(t))

\* C2 as stated: a poller that never sees a terminal status ends after
\* exactly 120 attempts, and when it ends task_storage[t] holds a non-terminal
\* snapshot, the last one observed (the initial queued one if none was).  The
\* statement is taken in its widest reading: a snapshot observed and stored
\* by a Status query counts as observed.
C2_Original ==
    /\ [](\A t \in TaskIds : ExactlyMaxAttempts(t))
    /\ [][\A t \in TaskIds : C2_OriginalStep(t)]_vars

\* what the poller stored last is what it observed last, and that is
\* terminal only if the poller ended on it
PollerStoresWhatItSaw(t) ==
    last_writer[t] = "poller"
        => /\ task_storage[t] = poller[t].task_response
           /\ (task_storage[t].status \in Terminal
                  => poller[t].pc = "done" /\ poller[t].attempt < max_attempts)

C2_Step(t) ==
    Exhausts(t)
        => /\ poller'[t].attempt = max_attempts
           /\ task_storage' = task_storage
           /\ (last_writer[t] # "status" => task_storage'[t] = LastObserved(t))

\* C2 amended: a poller that never sees a terminal status ends after exactly
\* 120 attempts; what the poller stored last is the snapshot it observed
\* last, which is terminal only if the poller ended on it; ending by
\* exhaustion writes nothing; and when it ends task_storage[t] is the last
\* snapshot it observed (the initial one if none) unless a Status query was
\* the last to store.
C2_ExhaustionKeepsLastSnapshot ==
    /\ [](\A t \in TaskIds : ExactlyMaxAttempts(t) /\ PollerStoresWhatItSaw(t))
    /\ [][\A t \in TaskIds : C2_Step(t)]_vars

\* C2 witness: the poller has used up its attempts and the entry is the
\* running snapshot it stored
C2_Witness ==
    \E t \in TaskIds :
        /\ poller[t].pc = "done"
        /\ poller[t].attempt = max_attempts
        /\ last_writer[t] = "poller"
        /\ task_storage[t].status = "running"

\* a status answer that get_task_status cannot turn into a TaskResponse
FailedQuery(o) ==
    \/ o.kind # "response"
    \/ o.status_code # 200
    \/ o.body = NotJson
    \/ ~In("data", o.body)
    \/ ~In("status", Get(o.body, "data"))
    \/ ~IsStr(Get(Get(o.body, "data"), "status"))
    \/ Get(Get(o.body, "data"), "status").val \notin TaskStatus

C3_Step(t) ==
    /\ \A o \in StatusOutcomes :
          (FailedQuery(o) /\ PollerReturned(t, o))
             => /\ task_storage' = task_storage
                /\ poller' = [poller EXCEPT ![t].pc = "sleep"]
    /\ (poller[t].pc = "sleep" /\ poller'[t] # poller[t])
          => /\ poller'[t].attempt = poller[t].attempt + 1
             /\ poller'[t].pc = IF poller[t].attempt + 1 < max_attempts
                                THEN "inflight" ELSE "done"
             /\ task_storage' = task_storage

\* C3: a polling attempt that fails leaves task_storage as it was and lets
\* the loop go on: the poller sleeps, then the attempt counter goes up by
\* exactly one and the next query is made unless the counter has reached 120.
C3_FailedAttemptSwallowed == [][\A t \in TaskIds : C3_Step(t)]_vars

\* C3 witness: three attempts have failed and the fourth query is in flight
C3_Witness ==
    \E t \in TaskIds :
        /\ poller[t].pc = "inflight"
        /\ poller[t].attempt = 3
        /\ poller[t].task_response = None
        /\ last_writer[t] = "submit"

---------------------------------------------------------------------------
(* Properties of Submit.                                                   *)

C4_State ==
    /\ (req.op = "submit" /\ req.pc = "upload")
          => req.remote = NoOutcome /\ req.file_token = None
    /\ (req.op = "submit" /\ req.pc = "create")
          => /\ req.remote.kind = "response" /\ req.remote.status_code = 200
             /\ req.file_token # None
    /\ \A t \in TaskIds :
          /\ background_tasks[t] \in {0, 1}
          /\ background_tasks[t] = 0 <=> poller[t].pc = "none"
          /\ poller[t].pc # "none" => t \in DOMAIN task_storage

C4_Step ==
    /\ (/\ req'.op = "submit" /\ req'.pc = "done" /\ req' # req
        /\ req'.response.status_code = 200)
          => LET t == req'.task_id IN
             /\ req.op = "submit" /\ req.pc = "create"
             /\ req'.response.body.val["task_id"] = Str(t)
             /\ req'.response.body.val["status"] = Str("queued")
             /\ t \in DOMAIN task_storage'
             /\ task_storage'[t] = InitialSnapshot(t)
             /\ background_tasks'[t] = background_tasks[t] + 1
             /\ poller[t] = NotScheduled
             /\ poller'[t] = Scheduled
    /\ \A t \in TaskIds :
          /\ (poller[t].pc = "none" /\ poller'[t].pc # "none")
                => /\ req'.op = "submit" /\ req'.pc = "done"
                   /\ req'.response.status_code = 200
                   /\ req'.task_id = t
                   /\ poller'[t] = Scheduled
          /\ (poller[t].pc # "inflight" /\ poller'[t].pc = "inflight")
                => poller[t].pc \in {"scheduled", "sleep"}

\* C4: in a successful Submit the upload has returned its token before
\* create_task is in flight; the step that returns the response (task id,
\* status queued) is the one that stores the queued snapshot and schedules
\* exactly one poller, which has made no query yet; a poller is only ever
\* scheduled by that step, so its first query comes after the response.
C4_SubmitOrder ==
    /\ [](C4_State)
    /\ [][C4_Step]_vars

\* C4 witness: Submit has answered with the task id; the queued snapshot is
\* stored and the poller is scheduled but has not queried yet
C4_Witness ==
    /\ req.op = "submit" /\ req.pc = "done" /\ req.response.status_code = 200
    /\ task_storage[req.task_id] = InitialSnapshot(req.task_id)
    /\ poller[req.task_id] = Scheduled
    /\ background_tasks[req.task_id] = 1

\* a file Submit has to refuse: content type absent or not image/*, declared
\* size above 10MB, or an empty body
BadFile(f) ==
    \/ f.content_type = None
    \/ ~StartsWith(f.content_type.val, ImagePrefix)
    \/ (f.size # None /\ f.size.val > MaxFileSize)
    \/ f.length = 0

\* a refused Submit made no remote call and changed nothing
RefusedState ==
    (req.op = "submit" /\ BadFile(req.file))
        => req.pc = "done" /\ req.remote = NoOutcome /\ req.file_token = None

RefusedStep ==
    (req'.op = "submit" /\ BadFile(req'.file) /\ req' # req)
        => /\ task_storage' = task_storage
           /\ poller' = poller
           /\ background_tasks' = background_tasks

RefusedQuietly == [](RefusedState) /\ [][RefusedStep]_vars

\* C5 as stated: every Submit with a bad file is answered 400, with no remote
\* call, task_storage unchanged and no poller scheduled.
C5_Original ==
    /\ []((req.op = "submit" /\ BadFile(req.file)) => req.response.status_code = 400)
    /\ RefusedQuietly

\* C5 amended: with the credential configured every Submit with a bad file is
\* answered 400 (without it, 500 "not configured"); either way no remote call
\* is made, task_storage is unchanged and no poller is scheduled.
C5_BadFileRefused ==
    /\ []((req.op = "submit" /\ BadFile(req.file))
            => IF configured THEN req.response.status_code = 400
               ELSE req.response = NotConfigured)
    /\ RefusedQuietly

\* C5 witness: an image of 10MB + 1 byte has been refused with 400
C5_Witness ==
    /\ req.op = "submit" /\ req.pc = "done"
    /\ req.file = UploadFile(ImagePng, Num(MaxFileSize + 1), MaxFileSize + 1)
    /\ req.response.status_code = 400
    /\ req.remote = NoOutcome

---------------------------------------------------------------------------
(* Properties of the Status query.                                         *)

\* the TaskResponse that the data of a well-formed status answer describes
SnapshotOf(t, o) ==
    LET data == Get(o.body, "data") IN
    TaskResponse(t, Get(data, "status").val, Get(data, "input"), Get(data, "output"),
                 Get(data, "progress"), Get(data, "created_time"))

C6_State ==
    (req.op = "status" /\ req.pc = "done")
        => IF ~configured
           THEN req.response = NotConfigured /\ req.remote = NoOutcome
           ELSE /\ req.remote # NoOutcome
                /\ req.response.status_code = 200 <=> ~FailedQuery(req.remote)
                /\ req.response.status_code = 200
                      => req.response.body = SnapshotOf(req.task_id, req.remote)

C6_Step ==
    /\ (req'.op = "status" /\ req'.pc = "done" /\ req' # req /\ configured)
          => req.op = "status" /\ req.pc = "status" /\ req.task_id = req'.task_id
    /\ (req.op = "status" /\ req.pc = "status" /\ req' # req)
          => IF req'.response.status_code = 200
             THEN task_storage' = Put(task_storage, req.task_id, req'.response.body)
             ELSE task_storage' = task_storage

\* C6: a Status query is never answered from task_storage: unless the
\* credential is missing, its answer comes from a remote status call made by
\* this request; it is 200 exactly when that call gave a well-formed status,
\* and then the step that answers stores in task_storage exactly the snapshot
\* it returns; when the call fails the answer is an error and task_storage is
\* left unchanged.
C6_StatusIsFresh ==
    /\ [](C6_State)
    /\ [][C6_Step]_vars

\* C6 witness: the poller had stored one snapshot, the Status query returned
\* another and task_storage now holds the one returned
C6_Witness ==
    /\ req.op = "status" /\ req.pc = "done" /\ req.response.status_code = 200
    /\ req.response.body.status = "running"
    /\ task_storage[req.task_id] = req.response.body
    /\ StatusOf(poller[req.task_id].task_response) = "queued"

\* the urls of a snapshot whose output names them, else None
UrlsOf(snap) ==
    IF Truthy(snap.output) /\ In("model", snap.output)
       /\ In("urls", snap.output.val["model"])
    THEN snap.output.val["model"].val["urls"]
    ELSE None

\* the Download request is refused with 400 and the given detail, without a
\* file fetch and without a file written
Refused400(o, msg, echo) ==
    /\ req' = Answer(req, o, Error(400, msg, echo))
    /\ req'.url = None
    /\ downloads' = downloads

C7_Step ==
    \A o \in StatusOutcomes :
       (/\ req.op = "download" /\ req.pc = "status"
        /\ req' # req /\ req'.remote = o
        /\ get_task_status(req.task_id, o).ok)
          => LET snap == get_task_status(req.task_id, o).value IN
             /\ snap.status # "success"
                   => Refused400(o, "Task not completed. Current status", Str(snap.status))
             /\ (/\ snap.status = "success"
                 /\ IsDict(UrlsOf(snap))
                 /\ ~In(req.format, UrlsOf(snap)))
                   => Refused400(o, "Format not available. Available formats",
                                 List(DOMAIN UrlsOf(snap).val))

\* a file is fetched only from a url
C7_State ==
    (req.op = "download" /\ req.url = None) => req.pc # "file"

\* C7: a Download whose fresh status is not success is answered 400 with the
\* current status in the detail, and a Download of a successful task whose
\* format is not a key of the available urls is answered 400 with the
\* available keys in the detail; in both cases the request ends there: no
\* file is fetched and downloads/ is unchanged.
C7_DownloadRefused ==
    /\ [](C7_State)
    /\ [][C7_Step]_vars

\* C7 witness: a successful task offering glb only was asked for another
\* format and the request was answered 400
C7_Witness ==
    /\ req.op = "download" /\ req.pc = "done"
    /\ req.url = None
    /\ req.remote.kind = "response"
    /\ get_task_status(req.task_id, req.remote).ok
    /\ get_task_status(req.task_id, req.remote).value.status = "success"
    /\ IsDict(UrlsOf(get_task_status(req.task_id, req.remote).value))
    /\ ~In(req.format, UrlsOf(get_task_status(req.task_id, req.remote).value))
    /\ req.response.status_code = 400
    /\ downloads = {}

\* the six documented token locations, in priority order
PresentAt(result, i) ==
    LET data == Get(result, "data") IN
    CASE i = 1 -> In("image_token", data)
      [] i = 2 -> In("token", data)
      [] i = 3 -> In("file_token", data)
      [] i = 4 -> In("data", result) /\ IsStr(data)
      [] i = 5 -> In("token", result)
      [] i = 6 -> In("image_token", result)

ValueAt(result, i) ==
    LET data == Get(result, "data") IN
    CASE i = 1 -> data.val["image_token"]
      [] i = 2 -> data.val["token"]
      [] i = 3 -> data.val["file_token"]
      [] i = 4 -> data
      [] i = 5 -> result.val["token"]
      [] i = 6 -> result.val["image_token"]

TokenPresent(result) == \E i \in 1..6 : PresentAt(result, i)
FirstPresent(result) ==
    CHOOSE i \in 1..6 : PresentAt(result, i) /\ \A j \in 1..(i - 1) : ~PresentAt(result, j)

C8_Step ==
    \A o \in UploadOutcomes :
       (/\ req.op = "submit" /\ req.pc = "upload"
        /\ req' # req /\ req'.remote = o
        /\ o.kind = "response" /\ o.status_code = 200 /\ o.body # NotJson)
          => IF TokenPresent(o.body)
             THEN /\ req'.pc = "create"
                  /\ req'.file_token = ValueAt(o.body, FirstPresent(o.body))
             ELSE /\ req'.pc = "done"
                  /\ req'.response = Error(500, NoTokenMsg, o.body)

\* C8 as stated: on a 200 upload response with a JSON body, Submit goes on
\* with the token at the first of the six locations that holds one, and is
\* answered with the "could not extract token" error only when none of the six
\* holds one.
C8_TokenAtAnyLocation == [][C8_Step]_vars

StatusNames == {"queued", "running", "success", "failed"}

\* a 200 status response without a data object, or whose data.status is not
\* one of the four names
BadStatusBody(o) ==
    /\ o.kind = "response" /\ o.status_code = 200
    /\ \/ ~In("data", o.body)
       \/ ~In("status", o.body.val["data"])
       \/ o.body.val["data"].val["status"].val \notin StatusNames

C9_State ==
    /\ \A t \in DOMAIN task_storage : task_storage[t].status \in StatusNames
    /\ \A t \in TaskIds : poller[t].task_response # None
                               => poller[t].task_response.status \in StatusNames
    /\ \A t \in TaskIds, o \in StatusOutcomes :
          BadStatusBody(o) => ~get_task_status(t, o).ok

C9_Step ==
    \A o \in StatusOutcomes :
       BadStatusBody(o)
          => /\ (req.op = "status" /\ req.pc = "status" /\ req' # req /\ req'.remote = o)
                   => /\ req'.pc = "done"
                      /\ req'.response.status_code = 500
                      /\ task_storage' = task_storage
             /\ \A t \in TaskIds :
                   PollerReturned(t, o) => task_storage' = task_storage

\* C9: a 200 status response with no data object or with a data.status
\* outside queued, running, success, failed makes get_task_status fail: the
\* Status query is answered with an error, the poller's attempt fails, and
\* neither stores anything, so every entry of task_storage has one of the
\* four statuses.
C9_OnlyKnownStatuses ==
    /\ [](C9_State)
    /\ [][C9_Step]_vars

\* C9 witness: a Status query of a tracked task got a status outside the
\* four and was answered with an error
C9_Witness ==
    /\ req.op = "status" /\ req.pc = "done"
    /\ BadStatusBody(req.remote)
    /\ In("data", req.remote.body)
    /\ In("status", req.remote.body.val["data"])
    /\ req.response.status_code = 500
    /\ req.task_id \in DOMAIN task_storage

\* what a failed remote call must be turned into
Normalised(code, o) ==
    /\ o.kind = "timeout" => code = 408
    /\ o.kind = "request_error" => code = 500
    /\ (o.kind = "response" /\ o.status_code # 200) => code = o.status_code

FailedCall(o) ==
    o.kind \in {"timeout", "request_error"} \/ (o.kind = "response" /\ o.status_code # 200)

ClientNormalises ==
    /\ \A o \in UploadOutcomes :
          FailedCall(o) => ~upload_image(o).ok /\ Normalised(upload_image(o).status_code, o)
    /\ \A o \in UNION {CreateOutcomes(t) : t \in TaskIds} :
          FailedCall(o) => ~create_task(o).ok /\ Normalised(create_task(o).status_code, o)
    /\ \A o \in StatusOutcomes, t \in TaskIds :
          FailedCall(o) => /\ ~get_task_status(t, o).ok
                           /\ Normalised(get_task_status(t, o).status_code, o)
    /\ \A o \in FileOutcomes :
          FailedCall(o) => ~download_file(o).ok /\ Normalised(download_file(o).status_code, o)

\* C10: each of the four remote operations turns a timeout into 408, any
\* other transport failure into 500 and a non-200 answer into an error with
\* the remote status code, and a request whose remote call failed in one of
\* these ways is answered by its handler with that same status code.
C10_RemoteFailuresSurfaced ==
    /\ ClientNormalises
    /\ (req.pc = "done" /\ FailedCall(req.remote))
          => Normalised(req.response.status_code, req.remote)

\* C10 witness: the file fetch of a Download timed out and the request was
\* answered 408
C10_Witness ==
    /\ req.op = "download" /\ req.pc = "done"
    /\ req.url # None
    /\ req.remote.kind = "timeout"
    /\ req.response.status_code = 408


\* the fresh snapshot is a success whose output lacks the model/urls structure
LacksModelUrls(snap) ==
    snap.status = "success" /\ ~IsDict(UrlsOf(snap))

C11_Step ==
    \A o \in StatusOutcomes :
       (/\ req.op = "download" /\ req.pc = "status"
        /\ req' # req /\ req'.remote = o
        /\ get_task_status(req.task_id, o).ok
        /\ LacksModelUrls(get_task_status(req.task_id, o).value))
          => /\ req'.pc = "done"
             /\ req'.response.status_code = 404
             /\ req'.url = None
             /\ downloads' = downloads

\* C11 as stated: a Download whose fresh snapshot is a success without
\* output, without output.model or without output.model.urls is answered
\* 404, and no file is fetched or written.
C11_MissingModelIs404 == [][C11_Step]_vars


\* a parameter the caller set: not None, and not the empty string
Present(v) == v.type # "None" /\ ~(v.type = "str" /\ v.val = "")

\* the parameters that belong in "extra"
Qualifying(request_params) ==
    {k \in {"model_version", "texture_resolution"} : Present(request_params[k])}
    \cup {k \in {"style", "remesh"} :
             Present(request_params[k]) /\ request_params[k].val # "none"}

\* C12 as stated: the payload of the creation call carries type
\* image_to_model and the file reference with the upload token, and its
\* "extra" object holds exactly the parameters that are present (style and
\* remesh only when different from "none"), and is left out when there is none.
C12_PayloadCarriesWhatWasSet ==
    (req.op = "submit" /\ req.pc = "create")
       => LET sent == req.payload.val
              keys == Qualifying(req.request_params)
          IN  /\ sent["type"] = Str("image_to_model")
              /\ sent["file"] = Dict([type |-> Str("image"), file_token |-> req.file_token])
              /\ keys = {} => "extra" \notin DOMAIN sent
              /\ keys # {} => /\ "extra" \in DOMAIN sent
                              /\ sent["extra"] = Dict([k \in keys |-> req.request_params[k]])


\* an endpoint that needs the credential refused the request outright
RefusedNotConfigured ==
    /\ req.pc = "done"
    /\ req.response = NotConfigured
    /\ req.remote.kind = "none"
    /\ req.file_token = None /\ req.url = None

\* C13 as stated: while the credential is not configured every Submit,
\* Status and Download request is answered 500 "not configured" without a
\* remote call, task_storage stays empty, nothing is scheduled or
\* downloaded, and the health probe answers 200 reporting the credential as
\* not configured.
C13_NotConfigured ==
    ~configured
       => /\ req.op \in {"submit", "status", "download"} => RefusedNotConfigured
          /\ task_storage = EmptyDict
          /\ \A t \in TaskIds : poller[t].pc = "none"
          /\ downloads = {}
          /\ req.op = "root"
                => /\ req.response.status_code = 200
                   /\ req.response.body.val["api_configured"] = Bool(FALSE)


\* a step of the normalization is reached on this image and raises
NormalizationFails(img) ==
    \/ img.raises \in {"decode", "encode"}
    \/ img.raises = "convert" /\ img.mode \notin {"RGB", "L"}
    \/ img.raises = "resize" /\ img.large

FallsBack ==
    \A f \in Files, img \in Images :
       NormalizationFails(img) => optimize_image_for_upload(f, img) = Bytes(f)

\* the upload call of a Submit carries a file
C14_State ==
    (req.op = "submit" /\ req.pc = "upload")
       => /\ req.files # None
          /\ req.files.file.content.type = "bytes"

\* a Submit whose file passes the checks and whose image fails to normalize
\* goes on to the upload call with the bytes it read
C14_Step ==
    \A img \in Images :
       (/\ CanStart /\ req'.op = "submit" /\ req'.pc # "done"
        /\ NormalizationFails(img)
        /\ req'.files = UploadFiles(req'.file, img))
          => /\ req'.pc = "upload"
             /\ req'.files.file.content = Bytes(req'.file)

\* C14: when decode, mode conversion, resize or encode raises,
\* optimize_image_for_upload returns image_data as it was, and the Submit
\* goes on: upload_image posts a file, holding those original bytes.
C14_NormalizationFallsBack ==
    /\ [](FallsBack /\ C14_State)
    /\ [][C14_Step]_vars

\* C14 witness: the upload call of a Submit is in flight, or has been
\* answered with a token, with the original bytes as the file
C14_Witness ==
    /\ req.op = "submit" /\ req.pc \in {"upload", "create"}
    /\ req.files.file.content = Bytes(req.file)


\* the remote status calls for task id t that have been sent and not answered
StatusCallsInFlight(t) ==
    (IF poller[t].pc = "inflight" THEN {"poller"} ELSE {})
    \cup (IF req.pc = "status" /\ req.task_id = t THEN {req.op} ELSE {})

\* C15 as stated: at any time at most one remote status call for a task id
\* is in flight, counting the call of its poller and the call of a Status or
\* Download request for it.
C15_StatusCallsSerialized ==
    \A t \in TaskIds : Cardinality(StatusCallsInFlight(t)) <= 1


\* the entry of t is the snapshot of whoever stored it last
LastWriterWins(t) ==
    /\ last_writer[t] = "poller" => task_storage[t] = poller[t].task_response
    /\ (/\ last_writer[t] = "status"
        /\ req.op = "status" /\ req.pc = "done" /\ req.task_id = t
        /\ req.response.status_code = 200)
          => task_storage[t] = req.response.body

\* a successful status check of either path stores its snapshot, whatever
\* the entry held
C16_Step(t) ==
    \A o \in StatusOutcomes :
       get_task_status(t, o).ok
          => /\ PollerReturned(t, o)
                   => /\ task_storage'[t] = get_task_status(t, o).value
                      /\ last_writer'[t] = "poller"
             /\ (/\ req.op = "status" /\ req.pc = "status" /\ req.task_id = t
                 /\ req' # req /\ req'.remote = o)
                   => /\ task_storage'[t] = get_task_status(t, o).value
                      /\ last_writer'[t] = "status"

\* C16: every successful status check, of the poller or of a Status query,
\* overwrites task_storage[t] with its snapshot without looking at the
\* stored one, so the entry is always the snapshot of the check that stored
\* last.
C16_LastWriterWins ==
    /\ [](\A t \in TaskIds : LastWriterWins(t))
    /\ [][\A t \in TaskIds : C16_Step(t)]_vars

\* C16 witness: the poller ended on a terminal snapshot and a later Status
\* query replaced it with a non-terminal one
C16_Witness ==
    \E t \in TaskIds :
       /\ poller[t].pc = "done"
       /\ StatusOf(poller[t].task_response) \in Terminal
       /\ last_writer[t] = "status"
       /\ task_storage[t].status \notin Terminal


\* a step of the poller of a leaves everything of every other task alone,
\* and what it does is decided by its own counter and its own snapshots
C17_Step(a) ==
    poller'[a] # poller[a]
       => /\ \A b \in TwoTaskIds \ {a} :
                /\ poller'[b] = poller[b]
                /\ task_storage'[b] = task_storage[b]
                /\ last_writer'[b] = last_writer[b]
          /\ DOMAIN task_storage' = DOMAIN task_storage
          /\ poller'[a].attempt \in {poller[a].attempt, poller[a].attempt + 1}
          /\ poller'[a].attempt # poller[a].attempt => poller[a].pc = "sleep"
          /\ poller'[a].task_response # poller[a].task_response
                => /\ poller'[a].task_response.task_id = a
                   /\ task_storage'[a] = poller'[a].task_response
          /\ poller'[a].pc = "done"
                => \/ StatusOf(poller'[a].task_response) \in Terminal
                   \/ poller'[a].attempt = max_attempts

\* C17: a step of the poller of task id a writes at most task_storage[a]:
\* the entry, the poller and the history of every other task id are
\* unchanged; its attempt counter moves only at its own wake-up, the
\* snapshots it takes are snapshots of a, and it ends only on a terminal
\* snapshot of a or when its own counter reaches 120.
C17_PollersIndependent == [][\A a \in TwoTaskIds : C17_Step(a)]_vars

\* C17 witness: one poller has ended on a terminal snapshot it stored while
\* the other, still polling, has stored a non-terminal one
C17_Witness ==
    \E a \in TwoTaskIds, b \in TwoTaskIds :
       /\ a # b
       /\ poller[a].pc = "done" /\ StatusOf(poller[a].task_response) \in Terminal
       /\ task_storage[a] = poller[a].task_response
       /\ poller[b].pc \in {"inflight", "sleep"} /\ poller[b].task_response # None
       /\ task_storage[b] = poller[b].task_response


\* the Submit is answered with an error and has stored and scheduled nothing
SubmitFailed ==
    /\ req'.pc = "done"
    /\ req'.response.status_code >= 400
    /\ task_storage' = task_storage
    /\ last_writer' = last_writer
    /\ poller' = poller
    /\ background_tasks' = background_tasks

C18_Step ==
    /\ (/\ req.op = "submit" /\ req.pc = "upload" /\ req' # req
        /\ ~upload_image(req'.remote).ok)
          => SubmitFailed /\ req'.payload = None
    /\ (/\ req.op = "submit" /\ req.pc = "create" /\ req' # req
        /\ ~create_task(req'.remote).ok)
          => SubmitFailed

\* the creation call is made with a token, and a poller exists only for a
\* task id that a Submit stored and scheduled
C18_State ==
    /\ (req.op = "submit" /\ req.payload # None) => req.file_token # None
    /\ \A t \in TaskIds :
          poller[t].pc # "none"
             => /\ background_tasks[t] = 1
                /\ t \in DOMAIN task_storage
                /\ last_writer[t] # "none"

\* C18: when upload_image fails create_task is not called; when either
\* fails the Submit is answered with an error, task_storage is unchanged and
\* no poller is scheduled; so every poller belongs to a task id that
\* create_task returned to a Submit, which stored its entry.
C18_FailedSubmitLeavesNothing ==
    /\ [](C18_State)
    /\ [][C18_Step]_vars

\* C18 witness: a Submit got its token, its creation call failed, and it
\* was answered with an error with nothing stored or scheduled
C18_Witness ==
    /\ req.op = "submit" /\ req.pc = "done"
    /\ req.payload # None
    /\ req.response.status_code >= 400
    /\ task_storage = EmptyDict
    /\ \A t \in TaskIds : poller[t].pc = "none"


C19_Step ==
    /\ ((req.op = "download" \/ req'.op = "download") /\ req' # req)
          => task_storage' = task_storage /\ last_writer' = last_writer
    /\ \A t \in DOMAIN task_storage : t \in DOMAIN task_storage'
    /\ task_storage' # task_storage
          => \/ req.op = "submit" /\ req.pc = "create" /\ req'.pc = "done"
             \/ req.op = "status" /\ req.pc = "status" /\ req'.pc = "done"
             \/ \E t \in TaskIds : poller[t].pc = "inflight" /\ poller'[t] # poller[t]

\* C19: no step of a Download, from its arrival to its answer, changes
\* task_storage, whatever the outcome; task_storage changes only in the step
\* in which a Submit stores its first snapshot, a Status query stores its
\* fresh one or a poller stores its own; and no step removes an entry.
C19_DownloadLeavesTracker == [][C19_Step]_vars

\* C19 witness: a Download of a tracked task has seen a success snapshot and
\* written the file, and the entry is still the queued snapshot of the Submit
C19_Witness ==
    /\ req.op = "download" /\ req.pc = "done"
    /\ req.response.status_code = 200
    /\ <<req.task_id, req.format>> \in downloads
    /\ req.task_id \in DOMAIN task_storage
    /\ task_storage[req.task_id] = InitialSnapshot(req.task_id)


=============================================================================
